---- MODULE Spec2Model ----
(***************************************************************************)
(* A model of poke_api_fetcher.py: the on-disk cache, the detail fetchers  *)
(* (get_pokemon_details_with_retry, get_pokemon_details,                   *)
(* get_evolution_chain_details), the list collectors (get_all_pokemon,     *)
(* fetch_pokemon_from_api, fetch_evolution_chains), the flattener          *)
(* (extract_evolution_pairs), the field extraction (get_field_value,       *)
(* get_stat, get_types) and the item loops of main and                     *)
(* collect_evolution_data.                                                 *)
(*                                                                         *)
(* The cache directories live on disk, so they outlive a process: a       *)
(* behaviour of Spec is a sequence of fetches that may belong to one run   *)
(* or to several runs, and a behaviour of SpecList is a sequence of runs.  *)
(* Nothing but the cache is carried from one fetch or run to the next.     *)
(* A behaviour of SpecRun is one whole run, in flat or in evolution mode,  *)
(* on a cold, a warm or a corrupted cache; a behaviour of SpecPure applies *)
(* one of the pure functions to one input.                                 *)
(***************************************************************************)
EXTENDS Integers, Sequences, FiniteSets, TLC

(* ------------------------------ bounds -------------------------------- *)

\* The remote answers a detail request with one of the blobs 1..MaxRecord.
MaxRecord == 2
\* Detail fetches in one behaviour.
MaxFetches == 3

(* ------------------------- program constants --------------------------- *)

\* get_pokemon_details_with_retry(pokemon_url, max_retries=3, ...)
max_retries == 3
\* Python's None: the data of a failed fetch.
None == 0

(* ------------------------------- URLs ---------------------------------- *)

\* A URL is the sequence of its '/'-separated segments (what split('/') gives);
\* a trailing slash shows as a last segment "".
BASE_URL == <<"https:", "", "pokeapi.co", "api", "v2">>

Names == {"bulbasaur", "ivysaur"}
ChainIds == {"1"}

\* f"{BASE_URL}pokemon/{name}", as collect_evolution_data builds it.
PokemonUrl(name) == BASE_URL \o <<"pokemon", name>>
\* The url of a list-page ref: the API writes it with a trailing slash.
SlashUrl(u) == u \o <<"">>
ChainUrl(id) == BASE_URL \o <<"evolution-chain", id, "">>

\* str.rstrip('/'): every trailing slash goes.
RECURSIVE rstrip(_)
rstrip(u) ==
    IF u # <<>> /\ u[Len(u)] = "" THEN rstrip(SubSeq(u, 1, Len(u) - 1)) ELSE u

\* pokemon_url.rstrip('/').split('/')[-1]
CacheKey(u) == LET s == rstrip(u) IN IF s = <<>> THEN "" ELSE s[Len(s)]

(* ---------------------------- cache files ------------------------------ *)

\* A cache file is missing, holds JSON (a blob), or holds something json.load
\* rejects (a write that broke off half way).
File(s, j) == [state |-> s, json |-> j]
Missing == File("missing", None)
Corrupt == File("corrupt", None)
Json(j) == File("json", j)

\* cache_file.exists()
exists(f) == f.state # "missing"

\* with open(cache_file, 'r') as f: json.load(f) succeeds
readable(f) == f.state = "json"

\* What open(cache_file, 'w') + json.dump can leave behind: the blob; the old
\* file, when open fails; a truncated file, when the dump breaks off.
WriteOutcomes == {"ok", "open_fails", "dump_fails"}

unlink_skipped(dir, key) == dir

unlink_truncated(dir, key) == [dir EXCEPT ![key] = Corrupt]

\* cache_file.unlink()
unlink(dir, key) == [dir EXCEPT ![key] = Missing]

\* with open(FILE, 'w') as f: json.dump(blob, f), inside try/except. `nothing`
\* is the content of a file that holds no JSON.
write_file(f, blob, w, nothing) ==
    CASE w = "ok" -> Json(blob)
      [] w = "open_fails" -> f
      [] OTHER -> File("corrupt", nothing)

write_lost(dir, key, blob, w) == dir

\* with open(cache_file, 'w') as f: json.dump(data, f)   (inside try/except)
write(dir, key, blob, w) == [dir EXCEPT ![key] = write_file(@, blob, w, None)]

(* ------------------------------ remote --------------------------------- *)

\* The answers the endpoint will give to the successive requests of a fetch:
\* status 200 with a body, another status, or requests.get raises (a network
\* error).
Plans == [1..max_retries -> {"ok", "status", "error"}]
\* get_evolution_chain_details asks once.
ChainPlans == {p \in Plans : \A i \in 2..max_retries : p[i] = "ok"}
NoPlan == [i \in 1..max_retries |-> "ok"]

wait_time_early(r) == 2 ^ (r - 1)

\* wait_time = 2 ** retries
wait_time(r) == 2 ^ r

VARIABLES
    pokemon_details,    \* cache/pokemon_details: key -> file
    evolution_chains,   \* cache/evolution_chains: chain id -> file
    pc,                 \* where the fetch stands
    fn,                 \* "pokemon": get_pokemon_details_with_retry; "chain": get_evolution_chain_details
    url,                \* pokemon_url / chain_url
    force_refresh,
    retries,
    data,               \* the returned data (None: failure)
    from_cache,         \* the returned cache_hit flag
    raised,             \* the call ended with an exception for its caller
    remote,             \* the endpoint's answers to this fetch's requests
    calls,              \* requests.get calls issued by this fetch
    waits,              \* the time.sleep(wait_time) calls of this fetch, in order
    at_call,            \* the key's cache file when the fetch was called
    wrote,              \* this fetch wrote the key's cache file
    fetches,            \* fetches called so far
    saved,              \* keys fetched and saved, with no force-refresh fetch of the key since
    ever_saved          \* keys fetched and saved at some time

fetch_vars == <<pokemon_details, evolution_chains, pc, fn, url, force_refresh, retries,
                data, from_cache, raised, remote, calls, waits, at_call, wrote,
                fetches, saved, ever_saved>>

key == CacheKey(url)

\* No fetch has been called; the two cache directories hold `details` and `chains`.
FetchInitWith(details, chains) ==
    /\ pokemon_details = details
    /\ evolution_chains = chains
    /\ pc = "idle"
    /\ fn = "pokemon"
    /\ url = <<>>
    /\ force_refresh = FALSE
    /\ retries = 0
    /\ data = None
    /\ from_cache = FALSE
    /\ raised = FALSE
    /\ remote = NoPlan
    /\ calls = 0
    /\ waits = <<>>
    /\ at_call = Missing
    /\ wrote = FALSE
    /\ fetches = 0
    /\ saved = {}
    /\ ever_saved = {}

FetchInit == FetchInitWith([n \in Names |-> Missing], [c \in ChainIds |-> Missing])

\* A fetch is entered with its arguments.
Enter(f, u, force, plan) ==
    /\ pc = "idle"
    /\ fn' = f
    /\ url' = u
    /\ force_refresh' = force
    /\ remote' = plan
    /\ retries' = 0
    /\ calls' = 0
    /\ waits' = <<>>
    /\ data' = None
    /\ from_cache' = FALSE
    /\ raised' = FALSE
    /\ wrote' = FALSE
    /\ at_call' = IF f = "pokemon" THEN pokemon_details[CacheKey(u)]
                  ELSE evolution_chains[CacheKey(u)]
    /\ saved' = IF force THEN saved \ {<<f, CacheKey(u)>>} ELSE saved
    /\ pc' = IF f = "pokemon" THEN "retry_loop" ELSE "get_evolution_chain_details"
    /\ UNCHANGED <<pokemon_details, evolution_chains, ever_saved>>

\* A caller (main, collect_evolution_data) calls the fetch.
Call(f, u, force, plan) ==
    /\ fetches < MaxFetches
    /\ fetches' = fetches + 1
    /\ Enter(f, u, force, plan)

call_get_pokemon_details_with_retry ==
    \E u \in {PokemonUrl(n) : n \in Names} \cup {SlashUrl(PokemonUrl(n)) : n \in Names},
       force \in BOOLEAN, plan \in Plans : Call("pokemon", u, force, plan)

call_get_evolution_chain_details ==
    \E u \in {ChainUrl(c) : c \in ChainIds}, force \in BOOLEAN, plan \in ChainPlans : Call("chain", u, force, plan)

\* get_pokemon_details_with_retry: the head of `while retries < max_retries`,
\* the force-refresh unlink, and the return after the loop.
retry_loop ==
    /\ pc = "retry_loop"
    /\ IF retries < max_retries
       THEN /\ pokemon_details' =
                  IF force_refresh /\ exists(pokemon_details[key])
                  THEN unlink(pokemon_details, key)
                  ELSE pokemon_details
            /\ pc' = "get_pokemon_details"
            /\ UNCHANGED <<data, from_cache>>
       ELSE /\ data' = None
            /\ from_cache' = FALSE
            /\ pc' = "done"
            /\ UNCHANGED pokemon_details
    /\ UNCHANGED <<evolution_chains, fn, url, force_refresh, retries, raised, remote,
                   calls, waits, at_call, wrote, fetches, saved, ever_saved>>

cache_check_skipped(file, force) == FALSE

cache_check_unreadable(file, force) == exists(file) /\ ~force

cache_check_forced(file, force) == exists(file) /\ force /\ readable(file)

\* get_pokemon_details / get_evolution_chain_details: the cached file is
\* returned when it exists, the caller does not refresh, and it loads.
cache_check(file, force) == exists(file) /\ ~force /\ readable(file)

\* get_pokemon_details: the cache lookup. It has no force_refresh parameter.
get_pokemon_details ==
    /\ pc = "get_pokemon_details"
    /\ IF cache_check(pokemon_details[key], FALSE)
       THEN /\ data' = pokemon_details[key].json
            /\ from_cache' = TRUE
            /\ pc' = "done"
       ELSE /\ pc' = "request"
            /\ UNCHANGED <<data, from_cache>>
    /\ UNCHANGED <<pokemon_details, evolution_chains, fn, url, force_refresh, retries,
                   raised, remote, calls, waits, at_call, wrote, fetches, saved,
                   ever_saved>>

\* get_pokemon_details from requests.get on, and the except branch of
\* get_pokemon_details_with_retry for the exception it may raise. The body of
\* a 200 answer is one of `blobs`.
get_pokemon_details_request_of(blobs) ==
    /\ pc = "request"
    /\ fn = "pokemon"
    /\ calls' = calls + 1
    /\ \/ /\ remote[calls + 1] = "ok"
          /\ \E blob \in blobs, w \in WriteOutcomes :
                /\ pokemon_details' = write(pokemon_details, key, blob, w)
                /\ data' = blob
                /\ saved' = IF w = "ok" THEN saved \cup {<<fn, key>>} ELSE saved
                /\ ever_saved' = IF w = "ok" THEN ever_saved \cup {<<fn, key>>}
                                 ELSE ever_saved
          /\ wrote' = (pokemon_details'[key] # pokemon_details[key])
          /\ from_cache' = FALSE
          /\ pc' = "done"
          /\ UNCHANGED <<retries, waits>>
       \/ /\ remote[calls + 1] = "status"
          /\ data' = None
          /\ from_cache' = FALSE
          /\ pc' = "done"
          /\ UNCHANGED <<pokemon_details, retries, waits, wrote, saved, ever_saved>>
       \/ /\ remote[calls + 1] = "error"
          /\ retries' = retries + 1
          /\ waits' = IF retries + 1 < max_retries
                      THEN Append(waits, wait_time(retries + 1))
                      ELSE waits
          /\ pc' = "retry_loop"
          /\ UNCHANGED <<pokemon_details, data, from_cache, wrote, saved, ever_saved>>
    /\ UNCHANGED <<evolution_chains, fn, url, force_refresh, raised, remote, at_call,
                   fetches>>

get_pokemon_details_request == get_pokemon_details_request_of(1..MaxRecord)

\* get_evolution_chain_details: the cache lookup.
get_evolution_chain_details ==
    /\ pc = "get_evolution_chain_details"
    /\ IF cache_check(evolution_chains[key], force_refresh)
       THEN /\ data' = evolution_chains[key].json
            /\ from_cache' = TRUE
            /\ pc' = "done"
       ELSE /\ pc' = "request"
            /\ UNCHANGED <<data, from_cache>>
    /\ UNCHANGED <<pokemon_details, evolution_chains, fn, url, force_refresh, retries,
                   raised, remote, calls, waits, at_call, wrote, fetches, saved,
                   ever_saved>>

\* get_evolution_chain_details from requests.get on; nothing catches what
\* requests.get raises, so the caller gets the exception.
get_evolution_chain_details_request_of(blobs) ==
    /\ pc = "request"
    /\ fn = "chain"
    /\ calls' = calls + 1
    /\ \/ /\ remote[calls + 1] = "ok"
          /\ \E blob \in blobs, w \in WriteOutcomes :
                /\ evolution_chains' = write(evolution_chains, key, blob, w)
                /\ data' = blob
                /\ saved' = IF w = "ok" THEN saved \cup {<<fn, key>>} ELSE saved
                /\ ever_saved' = IF w = "ok" THEN ever_saved \cup {<<fn, key>>}
                                 ELSE ever_saved
          /\ wrote' = (evolution_chains'[key] # evolution_chains[key])
          /\ from_cache' = FALSE
          /\ UNCHANGED raised
       \/ /\ remote[calls + 1] = "status"
          /\ data' = None
          /\ from_cache' = FALSE
          /\ UNCHANGED <<evolution_chains, raised, wrote, saved, ever_saved>>
       \/ /\ remote[calls + 1] = "error"
          /\ raised' = TRUE
          /\ UNCHANGED <<evolution_chains, data, from_cache, wrote, saved, ever_saved>>
    /\ pc' = "done"
    /\ UNCHANGED <<pokemon_details, fn, url, force_refresh, retries, remote, waits,
                   at_call, fetches>>

get_evolution_chain_details_request == get_evolution_chain_details_request_of(1..MaxRecord)

\* The caller has the result; the next fetch may be called.
return ==
    /\ pc = "done"
    /\ pc' = "idle"
    /\ fn' = "pokemon"
    /\ url' = <<>>
    /\ force_refresh' = FALSE
    /\ retries' = 0
    /\ data' = None
    /\ from_cache' = FALSE
    /\ raised' = FALSE
    /\ remote' = NoPlan
    /\ calls' = 0
    /\ waits' = <<>>
    /\ at_call' = Missing
    /\ wrote' = FALSE
    /\ UNCHANGED <<pokemon_details, evolution_chains, fetches, saved, ever_saved>>

(* =========================== list collection =========================== *)

\* Pages of the list endpoint, and items on one page.
MaxPages == 3
MaxPageSize == 2
\* The largest --limit / --evolution-limit a run is given.
MaxLimit == 3
\* Runs in one behaviour.
MaxRuns == 2

Min(a, b) == IF a < b THEN a ELSE b

RECURSIVE Sum(_)
Sum(s) == IF s = <<>> THEN 0 ELSE s[1] + Sum(Tail(s))

\* The endpoint lists the refs 1, 2, 3, ... in this order; `sizes` says how many
\* of them each page holds.
PagesOf(sizes) ==
    [p \in 1..Len(sizes) |->
        [i \in 1..sizes[p] |-> Sum(SubSeq(sizes, 1, p - 1)) + i]]

\* A list file holds no JSON list: it is missing or corrupt.
ListMissing == File("missing", <<>>)
ListCorrupt == File("corrupt", <<>>)

VARIABLES
    pages,                        \* the list endpoint: page number -> data["results"]
    POKEMON_CACHE_FILE,           \* cache/pokemon_list.json
    EVOLUTION_CHAINS_CACHE_FILE,  \* cache/evolution_chains_list.json
    lpc,                          \* where the run stands
    evolution_data,               \* args.evolution_data: evolution mode
    args_force_refresh,           \* args.force_refresh
    limit,                        \* args.limit / args.evolution_limit; 0 is None or 0, both falsy
    page,                         \* `url` of the collector: the page it points at, 0 for None
    all_pokemon,                  \* all_pokemon / all_chains
    pokemon_list,                 \* pokemon_list (main) / chains (collect_evolution_data)
    page_calls,                   \* requests.get calls on the list endpoint in this run
    late_call,                    \* a page was requested with limit refs already collected
    from_snapshot,                \* the list was read from the cached snapshot
    failure,                      \* how a page request of this run failed, or "none"
    runs                          \* runs started so far

list_vars == <<pages, POKEMON_CACHE_FILE, EVOLUTION_CHAINS_CACHE_FILE, lpc, evolution_data,
               args_force_refresh, limit, page, all_pokemon, pokemon_list, page_calls,
               late_call, from_snapshot, failure, runs>>


\* Every ref of the endpoint, in page order.
RECURSIVE Concat(_)
Concat(ps) == IF ps = <<>> THEN <<>> ELSE ps[1] \o Concat(Tail(ps))
AllRefs == Concat(pages)

\* No run has started; the endpoint has one of `layouts`, the cache directory
\* the two snapshot files.
ListInitFrom(layouts, pokemon_file, chains_file) ==
    /\ pages \in {PagesOf(s) : s \in layouts}
    /\ POKEMON_CACHE_FILE = pokemon_file
    /\ EVOLUTION_CHAINS_CACHE_FILE = chains_file
    /\ lpc = "idle"
    /\ evolution_data = FALSE
    /\ args_force_refresh = FALSE
    /\ limit = 0
    /\ page = 0
    /\ all_pokemon = <<>>
    /\ pokemon_list = <<>>
    /\ page_calls = 0
    /\ late_call = FALSE
    /\ from_snapshot = FALSE
    /\ failure = "none"
    /\ runs = 0

ListInitWith(layouts) == ListInitFrom(layouts, ListMissing, ListMissing)

ListInit == ListInitWith(UNION {[1..n -> 0..MaxPageSize] : n \in 1..MaxPages})

\* data["next"]: the next page's url, None after the last page.
next_url(p) == IF p < Len(pages) THEN p + 1 ELSE 0

extend_replaced(all, results) == results

\* all_pokemon.extend(data["results"])
extend(all, results) == all \o results

\* pokemon_list[:limit]
slice(list, n) == SubSeq(list, 1, Min(n, Len(list)))

\* main: if limit and limit > 0: pokemon_list = pokemon_list[:limit]
apply_limit(list) == IF limit > 0 THEN slice(list, limit) ELSE list

\* main / collect_evolution_data start with the parsed arguments, the limit
\* one of `limits`.
main_with(limits) ==
    /\ lpc = "idle"
    /\ runs < MaxRuns
    /\ runs' = runs + 1
    /\ \E e \in BOOLEAN, f \in BOOLEAN, l \in limits :
          /\ evolution_data' = e
          /\ args_force_refresh' = f
          /\ limit' = l
          /\ lpc' = IF e THEN "fetch_evolution_chains" ELSE "get_all_pokemon"
    /\ page' = 0
    /\ all_pokemon' = <<>>
    /\ pokemon_list' = <<>>
    /\ page_calls' = 0
    /\ late_call' = FALSE
    /\ from_snapshot' = FALSE
    /\ failure' = "none"
    /\ UNCHANGED <<pages, POKEMON_CACHE_FILE, EVOLUTION_CHAINS_CACHE_FILE>>

main == main_with(0..MaxLimit)

\* get_all_pokemon(), and main's limit on what it returns. It is called without
\* force_refresh: is_cache_valid() and `if cached_pokemon` alone decide.
get_all_pokemon ==
    /\ lpc = "get_all_pokemon"
    /\ IF exists(POKEMON_CACHE_FILE) /\ readable(POKEMON_CACHE_FILE)
          /\ POKEMON_CACHE_FILE.json # <<>>
       THEN /\ pokemon_list' = apply_limit(POKEMON_CACHE_FILE.json)
            /\ from_snapshot' = TRUE
            /\ lpc' = "process"
            /\ UNCHANGED page
       ELSE /\ page' = 1
            /\ lpc' = "fetch_pokemon_from_api"
            /\ UNCHANGED <<pokemon_list, from_snapshot>>
    /\ UNCHANGED <<pages, POKEMON_CACHE_FILE, EVOLUTION_CHAINS_CACHE_FILE, evolution_data,
                   args_force_refresh, limit, all_pokemon, page_calls, late_call,
                   failure, runs>>

\* fetch_pokemon_from_api: one turn of `while url`. What requests.get raises
\* is caught by main's `except Exception` alone, which ends the run.
fetch_pokemon_from_api ==
    /\ lpc = "fetch_pokemon_from_api"
    /\ page # 0
    /\ page_calls' = page_calls + 1
    /\ late_call' = (late_call \/ (limit > 0 /\ Len(all_pokemon) >= limit))
    /\ \/ /\ all_pokemon' = extend(all_pokemon, pages[page])
          /\ page' = next_url(page)
          /\ lpc' = IF next_url(page) = 0 THEN "save_pokemon_cache" ELSE lpc
          /\ UNCHANGED failure
       \/ /\ failure' = "status"
          /\ lpc' = "save_pokemon_cache"
          /\ UNCHANGED <<all_pokemon, page>>
       \/ /\ failure' = "error"
          /\ lpc' = "error"
          /\ UNCHANGED <<all_pokemon, page>>
    /\ UNCHANGED <<pages, POKEMON_CACHE_FILE, EVOLUTION_CHAINS_CACHE_FILE, evolution_data,
                   args_force_refresh, limit, pokemon_list, from_snapshot, runs>>

\* fetch_pokemon_from_api after the loop: save_pokemon_cache and return; then
\* main's limit.
save_pokemon_cache ==
    /\ lpc = "save_pokemon_cache"
    /\ IF all_pokemon # <<>>
       THEN \E w \in WriteOutcomes :
               POKEMON_CACHE_FILE' = write_file(POKEMON_CACHE_FILE, all_pokemon, w, <<>>)
       ELSE UNCHANGED POKEMON_CACHE_FILE
    /\ pokemon_list' = apply_limit(all_pokemon)
    /\ lpc' = "process"
    /\ UNCHANGED <<pages, EVOLUTION_CHAINS_CACHE_FILE, evolution_data, args_force_refresh,
                   limit, page, all_pokemon, page_calls, late_call, from_snapshot,
                   failure, runs>>

\* fetch_evolution_chains(force_refresh, limit): the cached snapshot, returned
\* as it is.
fetch_evolution_chains ==
    /\ lpc = "fetch_evolution_chains"
    /\ IF exists(EVOLUTION_CHAINS_CACHE_FILE) /\ ~args_force_refresh
          /\ readable(EVOLUTION_CHAINS_CACHE_FILE)
       THEN /\ pokemon_list' = EVOLUTION_CHAINS_CACHE_FILE.json
            /\ from_snapshot' = TRUE
            /\ lpc' = "process"
            /\ UNCHANGED page
       ELSE /\ page' = 1
            /\ lpc' = "fetch_evolution_chains_page"
            /\ UNCHANGED <<pokemon_list, from_snapshot>>
    /\ UNCHANGED <<pages, POKEMON_CACHE_FILE, EVOLUTION_CHAINS_CACHE_FILE, evolution_data,
                   args_force_refresh, limit, all_pokemon, page_calls, late_call,
                   failure, runs>>

\* fetch_evolution_chains: one turn of `while url`. Nothing catches what
\* requests.get raises: collect_evolution_data and main's evolution branch run
\* outside any try, so the process dies with a traceback.
fetch_evolution_chains_page ==
    /\ lpc = "fetch_evolution_chains_page"
    /\ page # 0
    /\ page_calls' = page_calls + 1
    /\ late_call' = (late_call \/ (limit > 0 /\ Len(all_pokemon) >= limit))
    /\ \/ /\ page' = next_url(page)
          /\ LET all == extend(all_pokemon, pages[page]) IN
             IF limit > 0 /\ Len(all) >= limit
             THEN /\ all_pokemon' = slice(all, limit)
                  /\ lpc' = "save_evolution_chains"
             ELSE /\ all_pokemon' = all
                  /\ lpc' = IF next_url(page) = 0 THEN "save_evolution_chains" ELSE lpc
          /\ UNCHANGED failure
       \/ /\ failure' = "status"
          /\ lpc' = "save_evolution_chains"
          /\ UNCHANGED <<all_pokemon, page>>
       \/ /\ failure' = "error"
          /\ lpc' = "crash"
          /\ UNCHANGED <<all_pokemon, page>>
    /\ UNCHANGED <<pages, POKEMON_CACHE_FILE, EVOLUTION_CHAINS_CACHE_FILE, evolution_data,
                   args_force_refresh, limit, pokemon_list, from_snapshot, runs>>

\* fetch_evolution_chains after the loop: the snapshot is saved and the list
\* returned.
save_evolution_chains ==
    /\ lpc = "save_evolution_chains"
    /\ IF all_pokemon # <<>>
       THEN \E w \in WriteOutcomes :
               EVOLUTION_CHAINS_CACHE_FILE' =
                   write_file(EVOLUTION_CHAINS_CACHE_FILE, all_pokemon, w, <<>>)
       ELSE UNCHANGED EVOLUTION_CHAINS_CACHE_FILE
    /\ pokemon_list' = all_pokemon
    /\ lpc' = "process"
    /\ UNCHANGED <<pages, POKEMON_CACHE_FILE, evolution_data, args_force_refresh, limit,
                   page, all_pokemon, page_calls, late_call, from_snapshot, failure, runs>>

\* The run is over: its list went on to be processed ("process"), main caught
\* an exception ("error"), or the process died of one ("crash"). Another run
\* may start; it finds the cache this one left.
exit ==
    /\ lpc \in {"process", "error", "crash"}
    /\ lpc' = "idle"
    /\ evolution_data' = FALSE
    /\ args_force_refresh' = FALSE
    /\ limit' = 0
    /\ page' = 0
    /\ all_pokemon' = <<>>
    /\ pokemon_list' = <<>>
    /\ page_calls' = 0
    /\ late_call' = FALSE
    /\ from_snapshot' = FALSE
    /\ failure' = "none"
    /\ UNCHANGED <<pages, POKEMON_CACHE_FILE, EVOLUTION_CHAINS_CACHE_FILE, runs>>

(* =========================== pure functions ============================ *)

\* Nodes of a chain tree.
MaxNodes == 4

\* A JSON value that may be None: None itself, or a dict (a function on its keys).
JsonNone == [is_none |-> TRUE, dict |-> <<>>]
Dict(d) == [is_none |-> FALSE, dict |-> d]
\* Python truth of such a value: None and {} are falsy.
truthy(x) == ~x.is_none /\ DOMAIN x.dict # {}

SpeciesNames == {"A", "B", "C", "D", "E"}

\* The species ref of a chain link.
SpeciesRef(s) == [name |-> s, url |-> BASE_URL \o <<"pokemon-species", s, "">>]

\* A rooted ordered tree on the nodes 1..n: parent[1] = 0, and the children of
\* a node stand in the order of their numbers.
ParentVectors(n) == {p \in [1..n -> 0..n] : p[1] = 0 /\ \A i \in 2..n : p[i] \in 1..(i - 1)}
Labelings(n) == {l \in [1..n -> SpeciesNames] : \A i, j \in 1..n : l[i] = l[j] => i = j}
Trees == UNION {{[parent |-> p, label |-> l] : p \in ParentVectors(n), l \in Labelings(n)} :
                 n \in 1..MaxNodes}

\* The children of node n, in source order.
ChildrenOf(t, n) == SelectSeq([i \in 1..Len(t.parent) |-> i], LAMBDA i : t.parent[i] = n)

\* The chain link the API sends for node n of tree t.
RECURSIVE ChainLink(_, _)
ChainLink(t, n) ==
    [species |-> SpeciesRef(t.label[n]),
     evolves_to |-> [k \in 1..Len(ChildrenOf(t, n)) |-> ChainLink(t, ChildrenOf(t, n)[k])]]

\* The chain resource of tree t.
ChainData(t) == Dict([id |-> 1, chain |-> ChainLink(t, 1)])
\* Chain data with no top-level node, and no chain data at all.
NoChainData == {JsonNone, Dict(<<>>), Dict([id |-> 1])}

RECURSIVE process_chain_link(_, _)
RECURSIVE for_evolves_to(_, _, _)

\* for evolves_to in chain_link.get("evolves_to", []):
\*     process_chain_link(evolves_to, current_species)
\* from the k-th link on; `parent` is what the call hands down.
for_evolves_to(links, k, parent) ==
    IF k > Len(links) THEN <<>>
    ELSE process_chain_link(links[k], parent) \o for_evolves_to(links, k + 1, parent)

\* if parent: pairs.append({"pre_evolution": parent, "evolution": current_species})
pair_of(chain_link, parent) ==
    IF truthy(parent)
    THEN <<[pre_evolution |-> parent.dict, evolution |-> chain_link.species]>>
    ELSE <<>>

\* chain_link.get("evolves_to", [])
evolves_to_of(chain_link) ==
    IF "evolves_to" \in DOMAIN chain_link THEN chain_link.evolves_to ELSE <<>>

process_chain_link_children_first(chain_link, parent) ==
    for_evolves_to(evolves_to_of(chain_link), 1, Dict(chain_link.species))
        \o pair_of(chain_link, parent)

process_chain_link_parent_passed_on(chain_link, parent) ==
    pair_of(chain_link, parent)
        \o for_evolves_to(evolves_to_of(chain_link), 1, parent)

\* process_chain_link(chain_link, parent=None): what it appends to `pairs`.
process_chain_link(chain_link, parent) ==
    pair_of(chain_link, parent)
        \o for_evolves_to(evolves_to_of(chain_link), 1, Dict(chain_link.species))

\* extract_evolution_pairs(chain_data)
extract_evolution_pairs(chain_data) ==
    IF truthy(chain_data) /\ "chain" \in DOMAIN chain_data.dict
    THEN process_chain_link(chain_data.dict.chain, JsonNone)
    ELSE <<>>

\* The flattened pairs by species name.
PairNames(list) ==
    [k \in 1..Len(list) |-> <<list[k].pre_evolution.name, list[k].evolution.name>>]

\* The refs of a list page name the creature and give its url; the endpoint
\* writes the url with the creature's id or with its name, with a trailing slash.
ListRefs ==
    {[name |-> n, url |-> SlashUrl(BASE_URL \o <<"pokemon", IF n = "bulbasaur" THEN "1" ELSE "2">>)] :
        n \in Names}
    \cup {[name |-> n, url |-> SlashUrl(PokemonUrl(n))] : n \in Names}

\* The field lists a caller may write after --fields.
all_available_fields ==
    <<"name", "id", "height", "weight", "hp", "attack", "defense",
      "special-attack", "special-defense", "speed", "types", "sprite">>
all_stats_fields == <<"hp", "attack", "defense", "special-attack", "special-defense", "speed">>

\* The field options of a command line: none, --fields LIST, --all-stats or
\* --all-fields (a mutually exclusive group).
CommandLines ==
    {[option |-> o, list |-> <<>>] : o \in {"none", "all-stats", "all-fields"}}
    \cup {[option |-> "fields", list |-> l] :
             l \in {<<"name", "speed">>, <<"speed", "name">>, <<"name">>, <<"name", "id", "types">>}}

\* args.all_fields: action='store_true', default=True.
all_fields_default(argv) == TRUE

\* parse_arguments(): the field options. An absent --fields (None) is <<>>.
parse_arguments(argv) ==
    [fields |-> IF argv.option = "fields" THEN argv.list ELSE <<>>,
     all_stats |-> argv.option = "all-stats",
     all_fields |-> all_fields_default(argv)]

\* main: "Parse fields to fetch based on command-line options".
select_fields(args) ==
    IF args.all_fields \/ args.fields = <<>> THEN all_available_fields
    ELSE IF args.all_stats THEN <<"name", "id">> \o all_stats_fields \o <<"sprite">>
    ELSE args.fields

VARIABLES
    op,       \* the function applied, "none" before
    input,    \* its argument
    output    \* its result

pure_vars == <<op, input, output>>

PureInit ==
    /\ op = "none"
    /\ input = <<>>
    /\ output = <<>>

\* extract_evolution_pairs on the chain data of a tree.
apply_extract_evolution_pairs ==
    \E t \in Trees :
        /\ op = "none"
        /\ op' = "extract_evolution_pairs"
        /\ input' = t
        /\ output' = extract_evolution_pairs(ChainData(t))

\* extract_evolution_pairs on chain data without a chain.
apply_extract_evolution_pairs_no_chain ==
    \E d \in NoChainData :
        /\ op = "none"
        /\ op' = "extract_evolution_pairs_no_chain"
        /\ input' = d
        /\ output' = extract_evolution_pairs(d)

\* The cache key of a creature: from the url of its list ref, as main passes it
\* to get_pokemon_details_with_retry, and from the url collect_evolution_data
\* builds out of its name.
apply_cache_key ==
    \E ref \in ListRefs :
        /\ op = "none"
        /\ op' = "cache_key"
        /\ input' = ref
        /\ output' = [flat |-> CacheKey(ref.url), evolution |-> CacheKey(PokemonUrl(ref.name))]

\* main: the fields of a command line, written as the header row.
apply_select_fields ==
    \E argv \in CommandLines :
        /\ op = "none"
        /\ op' = "select_fields"
        /\ input' = argv
        /\ output' = select_fields(parse_arguments(argv))

(* ========================== the text of cache files ==================== *)

\* Entries of a list or a dict.
MaxItems == 2

\* A value as response.json() and json.load give it: t is its Python type, s
\* the text of a scalar, items the entries of a list or a dict in their order
\* (the entries of a list have the key "").
JsonValue(t, s, items) == [t |-> t, s |-> s, items |-> items]
NoneType == JsonValue("NoneType", "null", <<>>)
StrValue(s) == JsonValue("str", s, <<>>)
ListValue(values) ==
    JsonValue("list", "", [k \in 1..Len(values) |-> [key |-> "", value |-> values[k]]])
DictOf(keys, values) ==
    JsonValue("dict", "", [k \in 1..Len(keys) |-> [key |-> keys[k], value |-> values[k]]])

\* The values of the checks: scalars (the int 0 and the str "0" among them),
\* lists and dicts of scalars, and lists of refs.
SeqsOf(S, n) == UNION {[1..m -> S] : m \in 0..n}
RefLists ==
    LET refs == {DictOf(<<"name", "url">>, <<StrValue("a"), StrValue("0")>>),
                 DictOf(<<"name", "url">>, <<StrValue("0"), StrValue("a")>>)}
    IN  {ListValue(values) : values \in SeqsOf(refs, MaxItems)}
Blobs ==
    LET scalars == {NoneType, JsonValue("bool", "true", <<>>), JsonValue("int", "0", <<>>),
                    StrValue("0"), StrValue("a")}
        keys == {ks \in SeqsOf({"name", "url"}, MaxItems) :
                    \A a, b \in 1..Len(ks) : ks[a] = ks[b] => a = b}
    IN  scalars
        \cup {ListValue(values) : values \in SeqsOf(scalars, MaxItems)}
        \cup UNION {{DictOf(ks, values) : values \in [1..Len(ks) -> scalars]} : ks \in keys}
        \cup RefLists

\* The text of a file, in tokens.
Token(kind, text) == [kind |-> kind, text |-> text]
Punct(c) == Token("punct", c)

\* json.dump: the text of a value.
RECURSIVE json_dump(_), json_dump_items(_, _, _)
json_dump_items(items, k, is_dict) ==
    IF k > Len(items) THEN <<>>
    ELSE (IF k > 1 THEN <<Punct(",")>> ELSE <<>>)
         \o (IF is_dict THEN <<Token("string", items[k].key), Punct(":")>> ELSE <<>>)
         \o json_dump(items[k].value)
         \o json_dump_items(items, k + 1, is_dict)
json_dump(obj) ==
    CASE obj.t = "NoneType" -> <<Token("literal", "null")>>
      [] obj.t = "bool" -> <<Token("literal", obj.s)>>
      [] obj.t = "int" -> <<Token("number", obj.s)>>
      [] obj.t = "str" -> <<Token("string", obj.s)>>
      [] obj.t = "list" -> <<Punct("[")>> \o json_dump_items(obj.items, 1, FALSE) \o <<Punct("]")>>
      [] obj.t = "dict" -> <<Punct("{")>> \o json_dump_items(obj.items, 1, TRUE) \o <<Punct("}")>>

\* json.load: the value of a text, or a JSONDecodeError. The decoder reads one
\* value from position pos on and says where it stopped.
Decoded(value, pos) == [ok |-> TRUE, value |-> value, pos |-> pos]
JSONDecodeError == [ok |-> FALSE, value |-> NoneType, pos |-> 0]
RECURSIVE decode(_, _), decode_items(_, _, _, _)
decode_items(text, pos, items, is_dict) ==
    LET is_punct(p, c) == p <= Len(text) /\ text[p] = Punct(c)
        close == IF is_dict THEN "}" ELSE "]"
        t == IF is_dict THEN "dict" ELSE "list"
        at == IF items = <<>> THEN pos ELSE pos + 1
        value_at == IF is_dict THEN at + 2 ELSE at
        value == decode(text, value_at)
    IN  IF is_punct(pos, close) THEN Decoded(JsonValue(t, "", items), pos + 1)
        ELSE IF items # <<>> /\ ~is_punct(pos, ",") THEN JSONDecodeError
        ELSE IF is_dict /\ ~(at <= Len(text) /\ text[at].kind = "string" /\ is_punct(at + 1, ":"))
             THEN JSONDecodeError
        ELSE IF ~value.ok THEN JSONDecodeError
        ELSE decode_items(text, value.pos,
                          Append(items, [key |-> IF is_dict THEN text[at].text ELSE "",
                                         value |-> value.value]),
                          is_dict)
decode(text, pos) ==
    IF pos > Len(text) THEN JSONDecodeError
    ELSE LET token == text[pos]
         IN  CASE token.kind = "literal" ->
                    Decoded(IF token.text = "null" THEN NoneType
                            ELSE JsonValue("bool", token.text, <<>>), pos + 1)
               [] token.kind = "number" -> Decoded(JsonValue("int", token.text, <<>>), pos + 1)
               [] token.kind = "string" -> Decoded(StrValue(token.text), pos + 1)
               [] token = Punct("[") -> decode_items(text, pos + 1, <<>>, FALSE)
               [] token = Punct("{") -> decode_items(text, pos + 1, <<>>, TRUE)
               [] OTHER -> JSONDecodeError
json_load(text) ==
    LET value == decode(text, 1)
    IN  IF value.ok /\ value.pos = Len(text) + 1 THEN value ELSE JSONDecodeError

\* A cache file that exists, and its text.
TextFile(text) == [exists |-> TRUE, text |-> text]

\* open(cache_file, mode) and the writes up to the close: 'w' truncates.
open_a(file, text) == TextFile(file.text \o text)
open_w(file, text) == TextFile(text)

\* What a read of the cache gives: a hit with the value, or a miss.
Hit(value) == [hit |-> TRUE, value |-> value]
Miss == [hit |-> FALSE, value |-> NoneType]

\* get_pokemon_details and get_evolution_chain_details: the entry of a key
\* written, and read.
save_detail(dir, k, blob) == [dir EXCEPT ![k] = open_w(dir[k], json_dump(blob))]
load_detail(dir, k) ==
    IF ~dir[k].exists THEN Miss
    ELSE IF json_load(dir[k].text).ok THEN Hit(json_load(dir[k].text).value)
    ELSE Miss

\* cache_data[name]: the value, or a KeyError.
getitem(obj, name) ==
    IF obj.t = "dict" /\ \E k \in 1..Len(obj.items) : obj.items[k].key = name
    THEN Hit(obj.items[CHOOSE k \in 1..Len(obj.items) : obj.items[k].key = name].value)
    ELSE Miss

\* save_pokemon_cache and load_pokemon_cache: the list in its envelope.
save_pokemon_cache_text(file, now, list) ==
    open_w(file, json_dump(DictOf(<<"timestamp", "pokemon_list">>, <<StrValue(now), list>>)))
load_pokemon_cache_text(file) ==
    IF ~file.exists \/ ~json_load(file.text).ok THEN Miss
    ELSE IF ~getitem(json_load(file.text).value, "timestamp").hit THEN Miss
    ELSE getitem(json_load(file.text).value, "pokemon_list")

\* The files a save may find: none, or the text of an earlier save.
OldFiles ==
    {[exists |-> FALSE, text |-> <<>>], TextFile(json_dump(StrValue("a"))),
     TextFile(json_dump(ListValue(<<StrValue("0")>>)))}

\* save then load of one detail entry, beside the entry of another key.
apply_save_load ==
    \E k \in Names, blob \in Blobs, dir \in [Names -> OldFiles] :
        /\ op = "none"
        /\ op' = "save_load"
        /\ input' = [key |-> k, blob |-> blob, dir |-> dir]
        /\ output' = [dir |-> save_detail(dir, k, blob),
                      loaded |-> [n \in Names |-> load_detail(save_detail(dir, k, blob), n)]]

\* save then load of the list snapshot.
apply_save_load_list ==
    \E list \in RefLists, now \in {"2024-01-01T00:00:00", "2024-01-02T00:00:00"},
       file \in OldFiles :
        /\ op = "none"
        /\ op' = "save_load_list"
        /\ input' = [list |-> list, file |-> file]
        /\ output' = load_pokemon_cache_text(save_pokemon_cache_text(file, now, list))

(* ======================= records and field extraction ================== *)

\* The creatures and chains of a run's endpoint.
RunNames == Names \cup {"venusaur"}
RunChainIds == ChainIds \cup {"2"}

\* The name and the chain id behind the n-th ref of a list page.
RefName(n) == CASE n = 1 -> "bulbasaur" [] n = 2 -> "ivysaur" [] OTHER -> "venusaur"
RefId(n) == IF n = 1 THEN "1" ELSE "2"

\* A value a field may have: None, or v.
NoneValue == [is_none |-> TRUE, v |-> 0]
Value(x) == [is_none |-> FALSE, v |-> x]

\* What the evaluation of an expression gives: a value, or an exception.
Returns(value) == [raises |-> FALSE, value |-> value]
Raises == [raises |-> TRUE, value |-> NoneValue]

\* How complete the record is that blob b holds for a creature: every odd blob
\* is complete; an even one lacks the speed stat, and for ivysaur the
\* "sprites" key.
RecordKind(name, b) ==
    IF b % 2 = 1 THEN "complete"
    ELSE IF name = "ivysaur" THEN "no_sprites" ELSE "no_speed"

\* The "stats" list of a record.
StatsOf(names, b) ==
    [k \in 1..Len(names) |-> [stat |-> [name |-> names[k]], base_stat |-> 10 * k + b]]

\* The detail record (response.json()) that blob b holds for a creature.
Detail(name, b) ==
    LET base == [id |-> Value(b), height |-> Value(7), weight |-> Value(69),
                 types |-> <<[type |-> [name |-> "grass"]]>>,
                 stats |-> StatsOf(IF RecordKind(name, b) = "no_speed"
                                   THEN SubSeq(all_stats_fields, 1, 5)
                                   ELSE all_stats_fields, b)]
    IN IF RecordKind(name, b) = "no_sprites" THEN base
       ELSE [k \in DOMAIN base \cup {"sprites"} |->
                IF k = "sprites" THEN [front_default |-> Value("png")] ELSE base[k]]

\* get_stat(pokemon_data, stat_name): the first stat of that name, or None.
RECURSIVE get_stat_from(_, _, _)
get_stat_from(stats, k, stat_name) ==
    IF k > Len(stats) THEN NoneValue
    ELSE IF stats[k].stat.name = stat_name THEN Value(stats[k].base_stat)
    ELSE get_stat_from(stats, k + 1, stat_name)

get_stat(pokemon_data, stat_name) == get_stat_from(pokemon_data.stats, 1, stat_name)

\* get_types(pokemon_data)
get_types(pokemon_data) ==
    [k \in 1..Len(pokemon_data.types) |-> pokemon_data.types[k].type.name]

\* pokemon_data.get(k)
dict_get(pokemon_data, k) ==
    IF k \in DOMAIN pokemon_data THEN pokemon_data[k] ELSE NoneValue

\* get_field_value(pokemon_data, field, pokemon_name, download_images=False)
get_field_value(pokemon_data, field, pokemon_name) ==
    CASE field = "name" -> Returns(Value(pokemon_name))
      [] field \in {"id", "height", "weight"} -> Returns(dict_get(pokemon_data, field))
      [] field \in {"hp", "attack", "defense", "special-attack", "special-defense", "speed"} ->
             Returns(get_stat(pokemon_data, field))
      [] field = "sprite" ->
             IF "sprites" \notin DOMAIN pokemon_data THEN Raises
             ELSE Returns(pokemon_data.sprites.front_default)
      [] field = "types" -> Returns(Value(get_types(pokemon_data)))
      [] OTHER -> Returns(NoneValue)

\* main: if value is None and field != "name": skip_pokemon = True
absent(value, field) == value.is_none /\ field # "name"

\* main: the loop `for field in fields` from the k-th field on, with row_data
\* as it stands: the row, a skip (skip_pokemon), or the exception raised.
RECURSIVE row_data(_, _, _, _, _)
row_data(pokemon_data, pokemon_name, fields, k, row) ==
    IF k > Len(fields) THEN [outcome |-> "row", row |-> row]
    ELSE LET got == get_field_value(pokemon_data, fields[k], pokemon_name)
         IN IF got.raises THEN [outcome |-> "exception", row |-> <<>>]
            ELSE IF absent(got.value, fields[k]) THEN [outcome |-> "absent", row |-> <<>>]
            ELSE row_data(pokemon_data, pokemon_name, fields, k + 1, Append(row, got.value))

\* collect_evolution_data: the columns of one species of a pair, from the k-th
\* field on. No value is looked at.
RECURSIVE species_columns(_, _, _, _, _)
species_columns(pokemon_data, pokemon_name, fields, k, row) ==
    IF k > Len(fields) THEN [outcome |-> "row", row |-> row]
    ELSE LET got == get_field_value(pokemon_data, fields[k], pokemon_name)
         IN IF got.raises THEN [outcome |-> "exception", row |-> <<>>]
            ELSE species_columns(pokemon_data, pokemon_name, fields, k + 1,
                                 Append(row, got.value))

\* get_stat(data, stat) or 0
stat_or_0(pokemon_data, stat) ==
    LET got == get_stat(pokemon_data, stat) IN IF got.is_none THEN 0 ELSE got.v

\* collect_evolution_data: the <stat>_change columns.
stat_changes(pre_evo_data, evo_data, fields) ==
    LET stats == SelectSeq(all_stats_fields,
                           LAMBDA s : \E k \in 1..Len(fields) : fields[k] = s)
    IN [k \in 1..Len(stats) |->
           Value(stat_or_0(evo_data, stats[k]) - stat_or_0(pre_evo_data, stats[k]))]

\* collect_evolution_data: row_data of a pair.
pair_row_data(pre_evo_data, evo_data, pair, fields) ==
    LET pre == species_columns(pre_evo_data, pair[1], fields, 1, <<>>)
        evo == species_columns(evo_data, pair[2], fields, 1, <<>>)
    IN IF pre.outcome = "exception" \/ evo.outcome = "exception"
       THEN [outcome |-> "exception", row |-> <<>>]
       ELSE [outcome |-> "row",
             row |-> pre.row \o evo.row \o stat_changes(pre_evo_data, evo_data, fields)]

\* A complete detail record but for its speed stat.
StatRecord(speed) ==
    [id |-> Value(1), height |-> Value(7), weight |-> Value(69),
     types |-> <<[type |-> [name |-> "grass"]]>>,
     sprites |-> [front_default |-> Value("png")],
     stats |-> StatsOf(SubSeq(all_stats_fields, 1, 5), 1)
               \o (IF speed.is_none THEN <<>>
                   ELSE <<[stat |-> [name |-> "speed"], base_stat |-> speed.v]>>)]

\* get_stat, the flat row and the evolution row of two records, with the
\* fields name and speed; the speed stat of a record is absent, 0 or 45.
apply_stat_fields ==
    \E pre_speed, evo_speed \in {NoneValue, Value(0), Value(45)} :
        /\ op = "none"
        /\ op' = "stat_fields"
        /\ input' = [pre |-> pre_speed, evo |-> evo_speed]
        /\ output' = [stat |-> get_stat(StatRecord(pre_speed), "speed"),
                      flat |-> row_data(StatRecord(pre_speed), "bulbasaur",
                                        <<"name", "speed">>, 1, <<>>),
                      pair |-> pair_row_data(StatRecord(pre_speed), StatRecord(evo_speed),
                                             <<"bulbasaur", "ivysaur">>, <<"name", "speed">>)]

\* The chain resource that blob b holds for chain id: chain 1 is
\* bulbasaur -> ivysaur -> venusaur (even b) or bulbasaur -> ivysaur (odd b);
\* chain 2 is a species that does not evolve.
ChainTree(id, b) ==
    IF id = "1"
    THEN IF b % 2 = 1
         THEN [parent |-> <<0, 1>>, label |-> <<"bulbasaur", "ivysaur">>]
         ELSE [parent |-> <<0, 1, 2>>, label |-> <<"bulbasaur", "ivysaur", "venusaur">>]
    ELSE [parent |-> <<0>>, label |-> <<"venusaur">>]

(* ========================= per-item processing ========================= *)

\* The command line of the run: the fields main works with.
argv == [option |-> "fields", list |-> <<"name", "speed">>]
fields == select_fields(parse_arguments(argv))

\* The answers of the endpoint to the requests of one fetch of a run.
RunPlans == {p \in Plans : p[2] = p[3] /\ (p[2] = "ok" \/ p[1] = "error")
                            /\ (p[1] = "error" => p[2] = "error")}

VARIABLES
    cache_init,        \* the cache the run found: "cold", "warm" or "corrupt"
    rpc,               \* where the item loop stands
    item_no,           \* i + 1: items of the list taken so far
    pairs,             \* pairs of the chain at hand
    pair_no,           \* pairs of that chain taken so far
    pre_evo,           \* pre_evo_data, pre_from_cache
    processed,         \* processed / processed_pairs
    skipped,           \* skipped / skipped_pairs
    processed_chains,
    handled,           \* creatures / pairs whose loop body has ended
    rows,              \* the data rows written to the CSV file
    last,              \* how the item taken last ended
    unslept            \* a request went out and no time.sleep(0.1) came after it

run_vars == <<cache_init, rpc, item_no, pairs, pair_no, pre_evo, processed, skipped,
              processed_chains, handled, rows, last, unslept>>

\* How an item ended, and whether the skip counter was incremented for it.
Outcome(kind, outcome, counted) == [kind |-> kind, outcome |-> outcome, counted |-> counted]

RunInit ==
    /\ cache_init \in {"cold", "warm", "corrupt"}
    /\ rpc = "loop"
    /\ item_no = 0
    /\ pairs = <<>>
    /\ pair_no = 0
    /\ pre_evo = [data |-> None, from_cache |-> FALSE]
    /\ processed = 0
    /\ skipped = 0
    /\ processed_chains = 0
    /\ handled = 0
    /\ rows = <<>>
    /\ last = Outcome("none", "none", FALSE)
    /\ unslept = FALSE

\* The run has ended: the loop is through, or a KeyboardInterrupt got to the
\* top ("interrupted": main's handler; "traceback": no handler), or an
\* exception of the list collection did.
stopped == rpc \in {"end", "interrupted", "traceback"} \/ lpc \in {"error", "crash"}

writerow_dropped(file, row) == file

\* csv_writer.writerow(row_data)
writerow(file, row) == Append(file, row)

\* The requests of the fetch that has returned were not followed by a sleep.
after_fetch == unslept \/ calls > 0

\* The run starts; no --limit / --evolution-limit is given.
run_main == main_with({0})

\* The endpoint of the run answers a detail request with record 1 or record 2.
RunRecords == {1, 2}
run_get_pokemon_details_request == get_pokemon_details_request_of(RunRecords)
run_get_evolution_chain_details_request == get_evolution_chain_details_request_of(RunRecords)

\* main: `for i, pokemon in enumerate(pokemon_list)` to the call of
\* get_pokemon_details_with_retry(pokemon["url"], force_refresh=force_refresh).
flat_next ==
    /\ lpc = "process" /\ ~evolution_data /\ rpc = "loop"
    /\ item_no < Len(pokemon_list)
    /\ \E plan \in RunPlans :
          Enter("pokemon", SlashUrl(PokemonUrl(RefName(pokemon_list[item_no + 1]))),
                args_force_refresh, plan)
    /\ item_no' = item_no + 1
    /\ rpc' = "pokemon"
    /\ UNCHANGED <<fetches, cache_init, pairs, pair_no, pre_evo, processed, skipped,
                   processed_chains, rows, last, unslept>>
    /\ UNCHANGED handled

\* main: the rest of the loop body, from `if not pokemon_data` to the sleep.
\* Every `continue` leaves the body before the sleep.
flat_row ==
    /\ rpc = "pokemon" /\ pc = "done"
    /\ LET pokemon_name == RefName(pokemon_list[item_no])
           r == IF data = None THEN [outcome |-> "failure", row |-> <<>>]
                ELSE row_data(Detail(pokemon_name, data), pokemon_name, fields, 1, <<>>)
       IN IF r.outcome = "row"
          THEN /\ rows' = writerow(rows, r.row)
               /\ processed' = processed + 1
               /\ unslept' = IF ~from_cache THEN FALSE ELSE unslept
               /\ last' = (Outcome("creature", "row", FALSE))
               /\ UNCHANGED skipped
          ELSE /\ skipped' = skipped + 1
               /\ unslept' = after_fetch
               /\ last' = (Outcome("creature", r.outcome, TRUE))
               /\ UNCHANGED <<rows, processed>>
    /\ rpc' = "loop"
    /\ return
    /\ UNCHANGED <<cache_init, item_no, pairs, pair_no, pre_evo, processed_chains>>
    /\ handled' = handled + 1

\* collect_evolution_data: `for chain_info in chains` to the call of
\* get_evolution_chain_details(chain_info["url"], force_refresh).
chain_next ==
    /\ lpc = "process" /\ evolution_data /\ rpc = "loop"
    /\ item_no < Len(pokemon_list)
    /\ \E plan \in ChainPlans :
          Enter("chain", ChainUrl(RefId(pokemon_list[item_no + 1])), args_force_refresh, plan)
    /\ item_no' = item_no + 1
    /\ rpc' = "chain"
    /\ UNCHANGED <<fetches, cache_init, pairs, pair_no, pre_evo, processed, skipped,
                   processed_chains, rows, last, unslept>>
    /\ UNCHANGED handled

\* collect_evolution_data: `if not chain_data: continue`, the pairs of the
\* chain, and the outer `except Exception` for what the call raised. No counter
\* is touched and nothing sleeps.
chain_pairs ==
    /\ rpc = "chain" /\ pc = "done"
    /\ IF raised \/ data = None
       THEN /\ last' = (Outcome("chain", IF raised THEN "exception" ELSE "failure", FALSE))
            /\ rpc' = "loop"
            /\ UNCHANGED <<pairs, pair_no>>
       ELSE /\ pairs' = PairNames(extract_evolution_pairs(
                            ChainData(ChainTree(RefId(pokemon_list[item_no]), data))))
            /\ pair_no' = 0
            /\ last' = (Outcome("chain", "pairs", FALSE))
            /\ rpc' = "pairs"
    /\ unslept' = after_fetch
    /\ return
    /\ UNCHANGED <<cache_init, item_no, pre_evo, processed, skipped, processed_chains, rows>>
    /\ UNCHANGED handled

\* collect_evolution_data: `for pair in pairs` to the first call of
\* get_pokemon_details_with_retry; after the last pair, processed_chains += 1.
pair_next ==
    /\ rpc = "pairs"
    /\ IF pair_no < Len(pairs)
       THEN /\ \E plan \in RunPlans :
                  Enter("pokemon", PokemonUrl(pairs[pair_no + 1][1]), args_force_refresh, plan)
            /\ pair_no' = pair_no + 1
            /\ rpc' = "pre_evolution"
            /\ UNCHANGED <<fetches, processed_chains>>
       ELSE /\ processed_chains' = processed_chains + 1
            /\ rpc' = "loop"
            /\ UNCHANGED <<fetch_vars, pair_no>>
    /\ UNCHANGED <<cache_init, item_no, pairs, pre_evo, processed, skipped, rows, last,
                   unslept>>
    /\ UNCHANGED handled

\* collect_evolution_data: pre_evo_data, pre_from_cache are assigned.
pair_pre_evolution ==
    /\ rpc = "pre_evolution" /\ pc = "done"
    /\ pre_evo' = [data |-> data, from_cache |-> from_cache]
    /\ unslept' = after_fetch
    /\ rpc' = "call_evolution"
    /\ return
    /\ UNCHANGED <<cache_init, item_no, pairs, pair_no, processed, skipped, processed_chains, rows,
                   last>>
    /\ UNCHANGED handled

\* collect_evolution_data: the second call of get_pokemon_details_with_retry.
pair_evolution ==
    /\ rpc = "call_evolution"
    /\ \E plan \in RunPlans :
          Enter("pokemon", PokemonUrl(pairs[pair_no][2]), args_force_refresh, plan)
    /\ rpc' = "evolution"
    /\ UNCHANGED <<fetches, cache_init, item_no, pairs, pair_no, pre_evo, processed, skipped,
                   processed_chains, rows, last, unslept>>
    /\ UNCHANGED handled

\* collect_evolution_data: the rest of the pair's body, from `if not
\* pre_evo_data or not evo_data` to the sleep, and the inner `except Exception`.
pair_row ==
    /\ rpc = "evolution" /\ pc = "done"
    /\ LET r == IF pre_evo.data = None \/ data = None
                THEN [outcome |-> "failure", row |-> <<>>]
                ELSE pair_row_data(Detail(pairs[pair_no][1], pre_evo.data),
                                   Detail(pairs[pair_no][2], data), pairs[pair_no], fields)
       IN IF r.outcome = "row"
          THEN /\ rows' = writerow(rows, r.row)
               /\ processed' = processed + 1
               /\ unslept' = IF ~pre_evo.from_cache \/ ~from_cache THEN FALSE ELSE unslept
               /\ last' = (Outcome("pair", "row", FALSE))
               /\ UNCHANGED skipped
          ELSE /\ skipped' = skipped + 1
               /\ unslept' = after_fetch
               /\ last' = (Outcome("pair", r.outcome, TRUE))
               /\ UNCHANGED <<rows, processed>>
    /\ pre_evo' = [data |-> None, from_cache |-> FALSE]
    /\ rpc' = "pairs"
    /\ return
    /\ UNCHANGED <<cache_init, item_no, pairs, pair_no, processed_chains>>
    /\ handled' = handled + 1

\* The item loop is through: the "Done!" message.
loop_end ==
    /\ lpc = "process" /\ rpc = "loop"
    /\ item_no = Len(pokemon_list)
    /\ rpc' = "end"
    /\ UNCHANGED <<cache_init, item_no, pairs, pair_no, pre_evo, processed, skipped,
                   processed_chains, rows, last, unslept>>
    /\ UNCHANGED handled

\* KeyboardInterrupt, at any point of the run. Flat mode runs inside main's
\* `try`, whose handler prints "Process interrupted by user"; evolution mode
\* (collect_evolution_data) is called before that `try`.
interrupt ==
    /\ lpc # "idle"
    /\ rpc' = IF evolution_data THEN "traceback" ELSE "interrupted"
    /\ UNCHANGED <<cache_init, item_no, pairs, pair_no, pre_evo, processed, skipped,
                   processed_chains, rows, last, unslept>>
    /\ UNCHANGED handled

(* ========================== specifications ============================= *)

vars == <<fetch_vars, list_vars, pure_vars, run_vars>>
not_fetch == <<list_vars, pure_vars, run_vars>>
not_list == <<fetch_vars, pure_vars, run_vars>>
not_pure == <<fetch_vars, list_vars, run_vars>>

ListNext ==
    \/ main /\ UNCHANGED not_list
    \/ get_all_pokemon /\ UNCHANGED not_list
    \/ fetch_pokemon_from_api /\ UNCHANGED not_list
    \/ save_pokemon_cache /\ UNCHANGED not_list
    \/ fetch_evolution_chains /\ UNCHANGED not_list
    \/ fetch_evolution_chains_page /\ UNCHANGED not_list
    \/ save_evolution_chains /\ UNCHANGED not_list
    \/ exit /\ UNCHANGED not_list

FetchNext ==
    \/ call_get_pokemon_details_with_retry /\ UNCHANGED not_fetch
    \/ call_get_evolution_chain_details /\ UNCHANGED not_fetch
    \/ retry_loop /\ UNCHANGED not_fetch
    \/ get_pokemon_details /\ UNCHANGED not_fetch
    \/ get_pokemon_details_request /\ UNCHANGED not_fetch
    \/ get_evolution_chain_details /\ UNCHANGED not_fetch
    \/ get_evolution_chain_details_request /\ UNCHANGED not_fetch
    \/ return /\ UNCHANGED not_fetch

\* The detail fetchers, with the list endpoint held fixed.
Init == FetchInit /\ ListInitWith({<<2, 2, 1>>}) /\ PureInit /\ RunInit /\ cache_init = "cold"
Next == FetchNext
Spec == Init /\ [][Next]_vars

\* The list collectors of a run, over every layout of the endpoint's pages.
InitList == FetchInit /\ ListInit /\ PureInit /\ RunInit /\ cache_init = "cold"
NextList == ListNext
SpecList == InitList /\ [][NextList]_vars

\* The pure functions, each applied to an input of its domain.
PureNext ==
    \/ apply_extract_evolution_pairs /\ UNCHANGED not_pure
    \/ apply_extract_evolution_pairs_no_chain /\ UNCHANGED not_pure
    \/ apply_cache_key /\ UNCHANGED not_pure
    \/ apply_select_fields /\ UNCHANGED not_pure
    \/ apply_save_load /\ UNCHANGED not_pure
    \/ apply_save_load_list /\ UNCHANGED not_pure
    \/ apply_stat_fields /\ UNCHANGED not_pure

InitPure == FetchInit /\ ListInitWith({<<2, 2, 1>>}) /\ PureInit /\ RunInit /\ cache_init = "cold"
NextPure == PureNext
SpecPure == InitPure /\ [][NextPure]_vars

\* One run, from the parsed arguments through the list collection and the item
\* loop to its end, on a cold, a warm or a corrupted cache. The endpoint lists
\* two refs on one page.
RunList == <<1, 2>>
RunCache(files, list) ==
    CASE cache_init = "cold" -> files = Missing /\ list = ListMissing
      [] cache_init = "warm" -> files = Json(1) /\ list = Json(RunList)
      [] OTHER -> files = Corrupt /\ list = ListCorrupt

InitRun ==
    /\ RunInit
    /\ PureInit
    /\ \E file \in {Missing, Json(1), Corrupt}, list \in {ListMissing, Json(RunList), ListCorrupt} :
          /\ RunCache(file, list)
          /\ FetchInitWith([n \in RunNames |-> file], [c \in RunChainIds |-> file])
          /\ ListInitFrom({<<2>>}, list, list)

RunNext ==
    \/ ~stopped /\ run_main /\ UNCHANGED not_list
    \/ ~stopped /\ get_all_pokemon /\ UNCHANGED not_list
    \/ ~stopped /\ fetch_pokemon_from_api /\ UNCHANGED not_list
    \/ ~stopped /\ save_pokemon_cache /\ UNCHANGED not_list
    \/ ~stopped /\ fetch_evolution_chains /\ UNCHANGED not_list
    \/ ~stopped /\ fetch_evolution_chains_page /\ UNCHANGED not_list
    \/ ~stopped /\ save_evolution_chains /\ UNCHANGED not_list
    \/ ~stopped /\ retry_loop /\ UNCHANGED not_fetch
    \/ ~stopped /\ get_pokemon_details /\ UNCHANGED not_fetch
    \/ ~stopped /\ run_get_pokemon_details_request /\ UNCHANGED not_fetch
    \/ ~stopped /\ get_evolution_chain_details /\ UNCHANGED not_fetch
    \/ ~stopped /\ run_get_evolution_chain_details_request /\ UNCHANGED not_fetch
    \/ ~stopped /\ flat_next /\ UNCHANGED <<list_vars, pure_vars>>
    \/ ~stopped /\ flat_row /\ UNCHANGED <<list_vars, pure_vars>>
    \/ ~stopped /\ chain_next /\ UNCHANGED <<list_vars, pure_vars>>
    \/ ~stopped /\ chain_pairs /\ UNCHANGED <<list_vars, pure_vars>>
    \/ ~stopped /\ pair_next /\ UNCHANGED <<list_vars, pure_vars>>
    \/ ~stopped /\ pair_pre_evolution /\ UNCHANGED <<list_vars, pure_vars>>
    \/ ~stopped /\ pair_evolution /\ UNCHANGED <<list_vars, pure_vars>>
    \/ ~stopped /\ pair_row /\ UNCHANGED <<list_vars, pure_vars>>
    \/ ~stopped /\ loop_end /\ UNCHANGED <<fetch_vars, list_vars, pure_vars>>
    \/ ~stopped /\ interrupt /\ UNCHANGED <<fetch_vars, list_vars, pure_vars>>

NextRun == RunNext
SpecRun == InitRun /\ [][NextRun]_vars

(* ============================== claims ================================= *)

\* The fetch had to ask the endpoint: it was called with force_refresh, or the
\* key's cache file was not a readable one.
must_request == force_refresh \/ ~readable(at_call)

\* C1: a fetch without force refresh of a key whose cache file is readable
\* returns exactly the cached record, with cache_hit = True, and issues no
\* remote call (creature details and evolution chains alike).
C1_CachedEntryIsReturned ==
    (pc = "done" /\ ~force_refresh /\ readable(at_call))
        => (data = at_call.json /\ from_cache /\ ~raised /\ calls = 0)

\* A fetch without force refresh ended on a readable cache file, whose blob is
\* not the first one the endpoint would answer.
C1_Witness ==
    /\ pc = "done" /\ ~force_refresh /\ readable(at_call)
    /\ at_call.json = MaxRecord /\ from_cache

\* C2, as amended: once a remote call for a key has succeeded and its result
\* was saved, no later fetch of that key without force refresh issues another
\* remote call, as long as no fetch of that key with force refresh has taken
\* place since the save.
C2_NoRefetchUntilForced ==
    (pc = "request" /\ ~force_refresh) => <<fn, key>> \notin saved

\* A later fetch without force refresh of a key saved before ended without a
\* remote call.
C2_Witness ==
    /\ pc = "done" /\ ~force_refresh /\ <<fn, key>> \in saved
    /\ fetches >= 2 /\ calls = 0 /\ from_cache

\* C2, as stated: once a remote call for a key has succeeded and its result was
\* saved, no later fetch of that key without force refresh issues another
\* remote call.
C2_Original ==
    (pc = "request" /\ ~force_refresh) => <<fn, key>> \notin ever_saved

\* C3: the fetch of a creature detail retries on every kind of failure: when
\* the endpoint fails the first max_retries - 1 requests (network error or
\* non-success status) and answers the last one, the fetch returns the record
\* with cache_hit = False.
C3_Original ==
    ( /\ pc = "done" /\ fn = "pokemon" /\ must_request
      /\ \A i \in 1..(max_retries - 1) : remote[i] # "ok"
      /\ remote[max_retries] = "ok" )
        => (data # None /\ ~from_cache /\ calls = max_retries)

\* C4: a fetch whose remote call fails on each of the max_retries attempts
\* returns Failure (None, cache_hit = False) after exactly max_retries remote
\* calls; no fetch issues more than max_retries remote calls; a failed fetch
\* writes no cache entry.
C4_Original ==
    /\ calls <= max_retries
    /\ ( /\ pc = "done" /\ fn = "pokemon" /\ must_request
         /\ \A i \in 1..max_retries : remote[i] # "ok" )
           => (data = None /\ ~from_cache /\ ~wrote /\ calls = max_retries)

\* C5, as amended: a fetch goes from its k-th failed attempt to the next one
\* only after waiting 2^k time units; it does not wait after its last attempt.
\* With max_retries = 3 the waits are 2 and 4 after attempts 1 and 2.
C5_BackoffBetweenAttempts ==
    fn = "pokemon" =>
        /\ Len(waits) = Min(retries, max_retries - 1)
        /\ \A k \in 1..Len(waits) : waits[k] = 2 ^ k

\* All max_retries attempts failed and the fetch gave up, having waited twice.
C5_Witness ==
    /\ pc = "done" /\ fn = "pokemon" /\ retries = max_retries
    /\ calls = max_retries /\ waits = <<2, 4>>

\* C5, as stated, for the attempts that failed with an error (the ones the code
\* counts in `retries`): after the k-th of them the fetcher has waited 2^k time
\* units, 2, 4 and 8 after attempts 1, 2 and 3.
C5_Original ==
    (fn = "pokemon" /\ pc \in {"retry_loop", "done"}) =>
        /\ Len(waits) = retries
        /\ \A k \in 1..Len(waits) : waits[k] = 2 ^ k

\* C6: a fetch with force refresh never returns cache_hit = True; for a
\* creature detail the key's cache file does not exist at the moment the remote
\* call is issued.
C6_ForceRefreshNeverHits ==
    /\ (pc = "done" /\ force_refresh) => (~from_cache /\ calls >= 1)
    /\ (pc = "request" /\ force_refresh /\ fn = "pokemon")
          => ~exists(pokemon_details[key])

\* A force-refresh fetch of a creature whose cache file was readable is about
\* to issue its remote call.
C6_Witness ==
    pc = "request" /\ force_refresh /\ fn = "pokemon" /\ readable(at_call)

\* C7: in a run with force refresh, in flat mode and in evolution mode, the
\* list is collected again from the list endpoint and the cached snapshot is
\* not returned.
C7_Original ==
    (lpc = "process" /\ args_force_refresh) => (~from_snapshot /\ page_calls >= 1)

C9_Original ==
    (lpc = "process" /\ limit > 0 /\ failure = "none")
        => (pokemon_list = slice(AllRefs, limit) /\ ~late_call)

\* C10: a page-fetch failure, a network error or a non-success status, stops
\* the pagination and the collector returns the refs collected so far; the run
\* goes on to process them and does not end with an error.
C10_Original ==
    /\ lpc \notin {"error", "crash"}
    /\ (lpc = "process" /\ failure # "none") => pokemon_list = apply_limit(all_pokemon)


\* The tree A -> [B, C], B -> [D].
TreeABCD == [parent |-> <<0, 1, 1, 2>>, label |-> <<"A", "B", "C", "D">>]

\* The nodes from the root down to node n.
RECURSIVE PathTo(_, _)
PathTo(t, n) == IF n = 1 THEN <<1>> ELSE Append(PathTo(t, t.parent[n]), n)

\* Node x comes before node y in the depth-first pre-order of tree t: x is an
\* ancestor of y, or where their paths part x lies under the earlier child.
Before(t, x, y) ==
    LET px == PathTo(t, x)
        py == PathTo(t, y)
    IN \/ Len(px) < Len(py) /\ \A m \in 1..Len(px) : px[m] = py[m]
       \/ \E k \in 1..Len(px) :
              /\ k <= Len(py)
              /\ \A m \in 1..(k - 1) : px[m] = py[m]
              /\ px[k] < py[k]

NodeOf(t, s) == CHOOSE i \in 1..Len(t.label) : t.label[i] = s

\* C11 (amended): flattening visits the tree depth-first in pre-order, the
\* children in source order: the pair of a node comes before the pairs of its
\* descendants, and those before the pairs of its later siblings. For
\* A -> [B, C], B -> [D] the pairs are (A,B), (B,D), (A,C).
C11_DepthFirstPreOrder ==
    op = "extract_evolution_pairs" =>
        /\ input = TreeABCD =>
               PairNames(output) = << <<"A", "B">>, <<"B", "D">>, <<"A", "C">> >>
        /\ \A i, j \in 1..Len(output) :
               i < j => Before(input, NodeOf(input, output[i].evolution.name),
                                      NodeOf(input, output[j].evolution.name))

C11_Witness ==
    /\ op = "extract_evolution_pairs"
    /\ input = TreeABCD
    /\ Len(output) = 3

\* C11 as written: for A -> [B, C], B -> [D] the pairs are (A,B), (A,C), (B,D).
C11_Original ==
    op = "extract_evolution_pairs" /\ input = TreeABCD =>
        PairNames(output) = << <<"A", "B">>, <<"A", "C">>, <<"B", "D">> >>

C18_Original ==
    op = "cache_key" =>
        /\ output.flat = output.evolution
        /\ CacheKey(SlashUrl(PokemonUrl(input.name))) = CacheKey(PokemonUrl(input.name))

\* C19: with an explicit field list the header row of the flat CSV is that
\* list, in the order given, and not the full default set.
C19_Original ==
    op = "select_fields" /\ input.option = "fields" => output = input.list


\* C13: when a selected field other than name is absent, the creature (flat
\* mode) or the pair (evolution mode) is skipped and the skip counter
\* incremented: no row has an absent value in any column.
C13_Original ==
    /\ \A k \in 1..Len(rows) : \A c \in 1..Len(rows[k]) : ~rows[k][c].is_none
    /\ last.outcome = "absent" => last.counted

\* C14: every creature of the flat list and every pair of the evolution mode
\* ends as one row and processed + 1, or as no row and skipped + 1: processed +
\* skipped is the number handled and the file has `processed` data rows. With
\* two creatures, one of them without the speed stat, the run ends with one
\* row and one skip.
C14_RowAccounting ==
    /\ processed + skipped = handled
    /\ Len(rows) = processed
    /\ ~evolution_data /\ rpc \in {"loop", "end"} => handled = item_no
    /\ last.kind \in {"creature", "pair"} => (last.outcome = "row" <=> ~last.counted)
    /\ (/\ rpc = "end" /\ ~evolution_data /\ cache_init = "cold"
        /\ Len(pokemon_list) = 2
        /\ pokemon_details["bulbasaur"] = Json(2)
        /\ pokemon_details["ivysaur"] = Json(1))
       => Len(rows) = 1 /\ processed = 1 /\ skipped = 1

C14_Witness ==
    /\ rpc = "end" /\ ~evolution_data /\ cache_init = "cold"
    /\ Len(pokemon_list) = 2
    /\ pokemon_details["bulbasaur"] = Json(2)
    /\ pokemon_details["ivysaur"] = Json(1)
    /\ Len(rows) = 1 /\ skipped = 1

\* C15: nothing that happens to one item ends the loop: when the run is
\* through, every item of the list was taken; and an exception raised while an
\* item (creature, chain or pair) was processed is counted as a skip.
C15_Original ==
    /\ rpc = "end" => item_no = Len(pokemon_list)
    /\ rpc = "loop" /\ last.kind = "pair" => pair_no = Len(pairs)
    /\ last.outcome = "exception" => last.counted

\* C16: every request that went out for a detail record is followed by the
\* delay before the next one goes out, whatever became of the item.
C16_Original ==
    ~(/\ rpc \in {"pokemon", "chain", "pre_evolution", "evolution"}
      /\ pc = "request"
      /\ calls = 0
      /\ unslept)

\* C17: a cache failure never ends the run: a corrupt detail, chain or list
\* file is a miss and the request goes out; after a request that was answered
\* the record is returned with cache_hit false whatever became of the write;
\* only an exception of a list request ends a run early.
C17_CacheFailuresAreNotFatal ==
    /\ pc = "done" /\ at_call.state = "corrupt" => calls >= 1
    /\ pc = "done" /\ calls >= 1 /\ remote[calls] = "ok" =>
           data \in RunRecords /\ ~from_cache /\ ~raised
    /\ cache_init = "corrupt" /\ lpc \in {"save_pokemon_cache", "save_evolution_chains", "process"} =>
           page_calls >= 1 /\ ~from_snapshot
    /\ lpc \in {"error", "crash"} => failure = "error"

C17_Witness ==
    /\ cache_init = "corrupt"
    /\ lpc = "process" /\ ~readable(IF evolution_data THEN EVOLUTION_CHAINS_CACHE_FILE
                                      ELSE POKEMON_CACHE_FILE)
    /\ pc = "done" /\ at_call.state = "corrupt" /\ remote[calls] = "ok"
    /\ data \in RunRecords
    /\ ~readable(IF fn = "pokemon" THEN pokemon_details[key] ELSE evolution_chains[key])

\* C20: a KeyboardInterrupt, in flat mode or in evolution mode, ends the run
\* with the message of main's handler and never with a traceback.
C20_Original == rpc # "traceback"

\* C21: a successful save of a blob under a key, followed by a load of that
\* key, returns a blob equal to the saved one, whatever the file held before;
\* the save leaves what load returns for every other key as it was. The list
\* snapshot, saved in its envelope, is loaded back as the list saved.
C21_SaveLoadRoundTrip ==
    /\ op = "save_load" =>
          /\ output.loaded[input.key] = Hit(input.blob)
          /\ \A n \in Names \ {input.key} :
                 /\ output.dir[n] = input.dir[n]
                 /\ output.loaded[n] = load_detail(input.dir, n)
    /\ op = "save_load_list" => output = Hit(input.list)

\* A dict of two entries is saved over an older entry of its key, beside the
\* entry of the other key, and a list of two refs is saved as the snapshot.
C21_Witness ==
    \/ /\ op = "save_load"
       /\ input.blob.t = "dict" /\ Len(input.blob.items) = 2
       /\ \A n \in Names : input.dir[n].exists
       /\ output.loaded[input.key].hit
    \/ /\ op = "save_load_list"
       /\ Len(input.list.items) = 2 /\ input.file.exists
       /\ output.hit


\* C22: a list snapshot is written only by a collection that ended
\* successfully (cursor exhausted or limit reached) with at least one item: no
\* step of a collection that stopped on a page-fetch failure changes a
\* snapshot file.
C22_Original ==
    [][(POKEMON_CACHE_FILE' # POKEMON_CACHE_FILE
        \/ EVOLUTION_CHAINS_CACHE_FILE' # EVOLUTION_CHAINS_CACHE_FILE)
       => failure = "none" /\ all_pokemon # <<>>]_vars

\* C23: in a run without force refresh, no step (a fetch, the list collection,
\* the assembly of a row) removes or overwrites a readable cache entry: a
\* detail entry, a chain entry, or a non-empty list snapshot.
C23_NoExpiry ==
    [][~args_force_refresh =>
          /\ \A n \in RunNames :
                 readable(pokemon_details[n]) => pokemon_details'[n] = pokemon_details[n]
          /\ \A c \in RunChainIds :
                 readable(evolution_chains[c]) => evolution_chains'[c] = evolution_chains[c]
          /\ (readable(POKEMON_CACHE_FILE) /\ POKEMON_CACHE_FILE.json # <<>>) =>
                 POKEMON_CACHE_FILE' = POKEMON_CACHE_FILE
          /\ (readable(EVOLUTION_CHAINS_CACHE_FILE) /\ EVOLUTION_CHAINS_CACHE_FILE.json # <<>>) =>
                 EVOLUTION_CHAINS_CACHE_FILE' = EVOLUTION_CHAINS_CACHE_FILE]_vars

\* A run without force refresh has served a record from its readable entry, or
\* has written an entry on a cold cache and gone on to a later item.
C23_Witness ==
    /\ ~args_force_refresh
    /\ \/ /\ cache_init = "warm" /\ from_snapshot
          /\ pc = "done" /\ from_cache /\ handled >= 1
       \/ /\ cache_init = "cold" /\ handled >= 2
          /\ \E n \in RunNames : readable(pokemon_details[n])
          /\ readable(IF evolution_data THEN EVOLUTION_CHAINS_CACHE_FILE ELSE POKEMON_CACHE_FILE)

\* C24: Absent is distinct from zero for stats. get_stat yields Absent for a
\* stat that is not in the list and 0 for one of base value 0; in flat mode
\* the creature of a 0-valued selected stat gets its row, with the value 0,
\* and the one without the stat gets none; in evolution mode the change of a
\* stat that one species of the pair lacks is Absent, not the difference to 0.
C24_Original ==
    op = "stat_fields" =>
        /\ output.stat = input.pre
        /\ input.pre.is_none => output.flat.outcome = "absent"
        /\ ~input.pre.is_none =>
               /\ output.flat.outcome = "row"
               /\ output.flat.row[2] = input.pre
        /\ output.pair.outcome = "row"
        /\ output.pair.row[Len(output.pair.row)] =
               IF input.pre.is_none \/ input.evo.is_none THEN NoneValue
               ELSE Value(input.evo.v - input.pre.v)

\* C25, as amended: a force-refresh fetch that fails leaves the entry of a
\* chain as it was before the fetch, so a later run without force refresh
\* still serves a readable one from the cache; the entry of a creature it
\* leaves removed, so a later run has to fetch the creature again.
C25_FailedForceRefresh ==
    (pc = "done" /\ (raised \/ data = None) /\ force_refresh) =>
        /\ fn = "chain" => evolution_chains[key] = at_call
        /\ fn = "pokemon" => pokemon_details[key] = Missing

\* A force-refresh fetch of a key with a readable entry has failed: on every
\* attempt for a creature, on its one attempt for a chain.
C25_Witness ==
    /\ pc = "done" /\ (raised \/ data = None) /\ force_refresh /\ readable(at_call)
    /\ \/ fn = "pokemon" /\ calls = max_retries
       \/ fn = "chain" /\ calls = 1

\* C25, as stated: a force-refresh fetch that fails leaves the cache entry
\* that existed for its key before the fetch intact, for a creature as for a
\* chain.
C25_Original ==
    (pc = "done" /\ (raised \/ data = None) /\ force_refresh) =>
        (IF fn = "pokemon" THEN pokemon_details[key] ELSE evolution_chains[key]) = at_call

\* C26: the chain list snapshot does not depend on the limit of the run that
\* stored it: a later evolution-mode run without force refresh that reads the
\* snapshot processes the complete chain list when it has no limit, and the
\* first `limit` chains of the complete list when it has one.
C26_Original ==
    (lpc = "process" /\ evolution_data /\ from_snapshot /\ ~args_force_refresh) =>
        IF limit = 0 THEN pokemon_list = AllRefs
        ELSE slice(pokemon_list, limit) = slice(AllRefs, limit)

\* C27: with every remote call returning a record, a status or an error, a
\* fetch makes at most max_retries attempts, and a run that has come to rest
\* without a KeyboardInterrupt is in its Done state: the list was collected,
\* every item was handled and the loop has ended.
C27_Original ==
    /\ calls <= max_retries
    /\ (~ENABLED NextRun /\ rpc \notin {"interrupted", "traceback"}) => rpc = "end"

====
